---- MODULE Spec2Model ----
(***************************************************************************)
(* The task evaluation orchestrator of the TARGET benchmark:               *)
(* AbsTask.task_run and its retrieval metric tracker (src/tasks/AbsTask.py)*)
(* together with the Text2SQLTask hooks (src/tasks/Text2SQLTask.py).       *)
(*                                                                         *)
(* One task object lives through a sequence of task_run calls.  A call is  *)
(* a frame with a program counter; every statement of the per-dataset,     *)
(* per-batch loop is one action.  Loaders, the retriever and the generator *)
(* are external collaborators: what they return (or whether they raise) is *)
(* drawn nondeterministically from small sets.                             *)
(*                                                                         *)
(* Three parts are followed on their own: one call of the SQL execution    *)
(* evaluator with its pool of workers, one call of the custom retriever's  *)
(* retrieve_batch (src/retrievers/AbsCustomEmbeddingRetriever.py), and one *)
(* call of AbsTask._construct_dataset_config.                              *)
(***************************************************************************)
EXTENDS Integers, Sequences, FiniteSets, TLC

\* ---------------------------------------------------------------- bounds
\* task_run calls on one task, queries a dataset holds, queries counted by
\* direct calls of the metric tracker
MaxRuns == 2
MaxQueries == 2
MaxDirectTotal == 4

\* ------------------------------------------------------- the input universe
\* default dataset names (TargetDatasetConfig.py)
TabFact == "tab-fact"
FetaQA == "fetaqa"
DatasetNames == {TabFact, FetaQA}

\* (database id, table id) pairs: the gold table of the queries and a distractor
GoldPair == <<"d1", "t1">>
OtherPair == <<"d9", "t9">>
Pairs == {GoldPair, OtherPair}

TopKs == {1, 2}
BatchSizes == {1, 2}
RetrieverKinds == {"custom", "standardized", "other"}
TaskKinds == {"abstract", "text2sql"}

None == "None"
NoResult == [x \in {} |-> 0]

SeqsUpTo(S, n) == UNION {[1..m -> S] : m \in 0..n}

\* loaders passed to task_run: a dict, iterated in insertion order
LoaderDicts == {<<>>, <<FetaQA>>, <<TabFact>>, <<TabFact, FetaQA>>, <<FetaQA, TabFact>>}
Keys(s) == {s[i] : i \in DOMAIN s}

\* what a loader's get_table_id_to_table holds: the ids of the dataset's corpus
TableMapOf(name) == IF name = FetaQA THEN Pairs ELSE {GoldPair}

VARIABLES
    \* the task object
    task_kind, dataset_config,
    true_positive, total_queries_processed,
    pred_sql, ref_sql, difficulties, current_dataset, database_dirs,
    \* the frame of the task_run call in progress
    pc, dataset_loaders, dataset_idx, retriever, has_client, batch_size, top_k,
    table_id_to_table, loader_pos, query_batch, retrieved_tables, downstream_results,
    retrieval_performance, task_results,
    \* what the caller of the last call got
    outcome, returned,
    \* history of the call in progress
    runs, last_loaders, calls, batch_no, done_no, batch_trace, finalized, ds_hits, ds_total,
    \* the SQL execution evaluator: the call in progress, its rows and its result
    eval_pc, eval_args, eval_rows, eval_conns, eval_result,
    \* the retriever's own ranking for each query of the batch it last answered,
    \* kept until the hit test has read the answer
    ranked,
    \* the call of _construct_dataset_config: its arguments and what it returned
    \* or raised (at first, the construction of the task without a user's config)
    config_call, config_result

task_vars == <<task_kind, dataset_config, true_positive, total_queries_processed,
               pred_sql, ref_sql, difficulties, current_dataset, database_dirs>>
frame_vars == <<pc, dataset_loaders, dataset_idx, retriever, has_client, batch_size, top_k,
                table_id_to_table, loader_pos, query_batch, retrieved_tables, downstream_results,
                retrieval_performance, task_results>>
hist_vars == <<runs, last_loaders, calls, batch_no, done_no, batch_trace, finalized, ds_hits, ds_total>>
orch_vars == <<task_vars, frame_vars, outcome, returned, hist_vars>>
eval_vars == <<eval_pc, eval_args, eval_rows, eval_conns, eval_result>>
config_vars == <<config_call, config_result>>
vars == <<orch_vars, eval_vars, ranked, config_vars>>

\* ------------------------------------------------------------ data models
\* a query batch is columnar: parallel lists, one entry per query
QueryBatch(n) == [database_id |-> [i \in 1..n |-> GoldPair[1]],
                  table_id |-> [i \in 1..n |-> GoldPair[2]]]
EmptyBatch == QueryBatch(0)

\* datasets whose query batches carry a difficulty column, and the value that
\* stands for a column the batch does not have
HasDifficultyLabels(name) == name = FetaQA
NoColumn == << <<"no column", 0>> >>

\* a batch as a loader yields it to task_run: the n queries after the first
\* `pos` of the dataset, with the columns the Text2SQL hooks read as well
LoaderBatch(name, pos, n) ==
    [query_id |-> [i \in 1..n |-> pos + i],
     query |-> [i \in 1..n |-> <<"query", pos + i>>],
     database_id |-> [i \in 1..n |-> GoldPair[1]],
     table_id |-> [i \in 1..n |-> GoldPair[2]],
     answer |-> [i \in 1..n |-> <<"ref sql", pos + i>>],
     difficulty |-> IF HasDifficultyLabels(name)
                    THEN [i \in 1..n |-> <<"level", pos + i>>]
                    ELSE NoColumn]
BatchSize(qb) == Len(qb.database_id)

\* RetrievalResultDataModel; retrieved_tables is filled in by the orchestrator
RetrievalResult(name, ids) ==
    [dataset_name |-> name, retrieval_results |-> ids, retrieved_tables |-> <<>>]

\* what retrieve_batch may answer for a batch of n queries: one result per query,
\* each a ranked list of at most k pairs
RetrieverAnswers(name, n, k) ==
    {[i \in 1..n |-> RetrievalResult(name, ids[i])] : ids \in [1..n -> SeqsUpTo(Pairs, k)]}

\* the OTT-QA retriever names a table of its corpus str((database id, table id))
\* and reads the pair back with ast.literal_eval
DocName(pair) == <<"(", pair[1], ",", pair[2], ")">>
LiteralEval(doc_name) == <<doc_name[2], doc_name[4]>>

\* a ranker's ranking of its corpus for one query: the doc names of the tables
\* it holds, each once, the closest first
Rankings ==
    {r \in SeqsUpTo({DocName(pair) : pair \in Pairs}, Cardinality(Pairs)) :
        \A i, j \in DOMAIN r : r[i] = r[j] => i = j}

\* ranker.closest_docs(query, k): the k closest doc names, in ranking order
ClosestDocs(ranking, k) ==
    SubSeq(ranking, 1, IF Len(ranking) < k THEN Len(ranking) ELSE k)

\* (variant: the ranker is asked for one doc more than top_k)
RetrieveOneMore(ranking, k) ==
    LET doc_names == ClosestDocs(ranking, k + 1)
    IN [j \in DOMAIN doc_names |-> LiteralEval(doc_names[j])]

\* OTTQARetriever.retrieve(query, dataset_name, top_k)
Retrieve(ranking, k) ==
    LET doc_names == ClosestDocs(ranking, k)
    IN [j \in DOMAIN doc_names |-> LiteralEval(doc_names[j])]

\* the answer of retrieve_batch for a batch whose queries the retriever ranks
\* as `rankings`: one result per query, holding what retrieve returns for it
RankedAnswer(name, rankings, k) ==
    [i \in DOMAIN rankings |-> RetrievalResult(name, Retrieve(rankings[i], k))]

\* markdown_table_with_headers(table_id_to_tables[id])
MarkdownTable(id) == <<"markdown", id>>

\* ------------------------------------------------------- pure computations
\* (variant: only the first, best ranked, element is compared)
ListContainsAtRankOne(x, list) == list # <<>> /\ Head(list) = x

\* Python's `x in list`: a scan from the first element
RECURSIVE ListContains(_, _)
ListContains(x, list) ==
    IF list = <<>> THEN FALSE
    ELSE IF Head(list) = x THEN TRUE
    ELSE ListContains(x, Tail(list))

\* the loop of _update_retrieval_metrics over zip(db ids, table ids, results):
\* the counters <<true_positive, total_queries_processed>> after it
RECURSIVE UpdateRetrievalCounters(_, _, _, _, _)
UpdateRetrievalCounters(tp, total, db_ids, table_ids, results) ==
    IF db_ids = <<>> \/ table_ids = <<>> \/ results = <<>> THEN <<tp, total>>
    ELSE UpdateRetrievalCounters(
            IF ListContains(<<Head(db_ids), Head(table_ids)>>, Head(results).retrieval_results)
            THEN tp + 1 ELSE tp,
            total + 1,
            Tail(db_ids), Tail(table_ids), Tail(results))

\* _fill_retrieval_results_with_table_strs: table_id_to_tables[id] raises KeyError
\* for an id the loader's map does not hold
FillRaises(results, table_map) ==
    \E i \in DOMAIN results : \E j \in DOMAIN results[i].retrieval_results :
        results[i].retrieval_results[j] \notin table_map

FillRetrievalResultsWithTableStrs(results) ==
    [i \in DOMAIN results |->
        [results[i] EXCEPT !.retrieved_tables =
            [j \in DOMAIN results[i].retrieval_results |->
                MarkdownTable(results[i].retrieval_results[j])]]]

\* RetrievalPerformanceDataModel(k, accuracy = true_positive / total): the
\* quotient is kept as the pair <<numerator, denominator>>
RetrievalPerformance(k, tp, total) == [k |-> k, accuracy |-> <<tp, total>>]
NoPerformance == [k |-> 0, accuracy |-> <<0, 0>>]

TaskResults(retrieval, downstream) ==
    [retrieval_performance |-> retrieval, downstream_task_performance |-> downstream]

\* the default dataset config of the task class
DefaultDatasetConfig(kind) == IF kind = "text2sql" THEN {TabFact} ELSE {FetaQA}

NoCalls == [loader |-> 0, retriever |-> 0, generator |-> 0]

\* ------------------------------------------- _construct_dataset_config
\* the field names of dictionary_keys, as TargetDatasetConfig.py passes them
CorpusField == "hf_corpus_dataset_path"
QueriesField == "hf_queries_dataset_path"
GenericField == "dataset_path"
NameField == "dataset_name"
ConfigFields == {CorpusField, QueriesField, GenericField}

\* the entries a user's datasets_config holds at most
MaxEntries == 2

\* names a user may give a dataset: a default's, a new one, and a name that is
\* also a field of its own entry
UserDatasetNames == DatasetNames \cup {"my-dataset", GenericField}

\* one entry of the user's dict: the name and the inner dict
UserEntry(key, fields) == [key |-> key, value |-> [f \in fields |-> "user's path"]]
UserEntries == {UserEntry(key, fields) : key \in UserDatasetNames, fields \in SUBSET ConfigFields}

\* the user's dict in insertion order: no key twice
UserConfigs ==
    {items \in SeqsUpTo(UserEntries, MaxEntries) :
        \A i, j \in DOMAIN items : items[i].key = items[j].key => i = j}

\* DEFAULT_..._DATASET_CONFIG
DefaultConfigOf(name) ==
    [model |-> "HF", dataset_name |-> name,
     paths |-> [f \in {CorpusField, QueriesField} |-> "target-benchmark path"]]

\* _get_default_dataset_config() of the task class
GetDefaultDatasetConfig(kind) == [name \in DefaultDatasetConfig(kind) |-> DefaultConfigOf(name)]

\* HFDatasetConfigDataModel(**value), GenericDatasetConfigDataModel(**value):
\* the model's own fields must be among the keywords, others are dropped
ModelFields(model) ==
    IF model = "HF" THEN {CorpusField, QueriesField} ELSE {GenericField}
ModelRaises(model, value) ==
    ~(ModelFields(model) \cup {NameField} \subseteq DOMAIN value)
DatasetConfigDataModel(model, value) ==
    [model |-> model, dataset_name |-> value[NameField],
     paths |-> [f \in ModelFields(model) |-> value[f]]]

\* the assertion on an entry
HasRequiredFields(value) ==
    (CorpusField \in DOMAIN value /\ QueriesField \in DOMAIN value)
        \/ GenericField \in DOMAIN value

\* `if key not in value: value[DATASET_NAME] = key`
WithDatasetName(key, value) ==
    IF key \notin DOMAIN value
    THEN [f \in DOMAIN value \cup {NameField} |-> IF f = NameField THEN key ELSE value[f]]
    ELSE value

\* `if HF_DATASET_CONFIG_CORPUS_FIELD in value`
ModelFor(value) == IF CorpusField \in DOMAIN value THEN "HF" ELSE "Generic"

\* the loop over datasets_config.items()
RECURSIVE ConstructLoop(_, _, _)
ConstructLoop(items, constructed_config, overwrite) ==
    IF items = <<>> THEN [raised |-> "", config |-> constructed_config]
    ELSE LET key == Head(items).key
             value == WithDatasetName(key, Head(items).value)
         IN IF ~HasRequiredFields(Head(items).value)
            THEN [raised |-> "AssertionError", config |-> NoResult]
            ELSE IF key \notin DOMAIN constructed_config \/ overwrite
            THEN IF ModelRaises(ModelFor(value), value)
                 THEN [raised |-> "ValidationError", config |-> NoResult]
                 ELSE ConstructLoop(Tail(items),
                        [name \in DOMAIN constructed_config \cup {key} |->
                            IF name = key THEN DatasetConfigDataModel(ModelFor(value), value)
                            ELSE constructed_config[name]],
                        overwrite)
            ELSE ConstructLoop(Tail(items), constructed_config, overwrite)

\* _construct_dataset_config(datasets_config, overwrite_default_datasets);
\* datasets_config is None when not `given`
ConstructDatasetConfig(kind, given, items, overwrite) ==
    IF given THEN ConstructLoop(items, GetDefaultDatasetConfig(kind), overwrite)
    ELSE [raised |-> "", config |-> GetDefaultDatasetConfig(kind)]

\* -------------------------------------------------------------------- Init
\* the task right after construction
Init ==
    /\ task_kind \in TaskKinds
    /\ dataset_config = DefaultDatasetConfig(task_kind)
    /\ true_positive = 0
    /\ total_queries_processed = 0
    /\ pred_sql = <<>>
    /\ ref_sql = <<>>
    /\ difficulties = <<>>
    /\ current_dataset = None
    /\ database_dirs = {}
    /\ pc = "idle"
    /\ dataset_loaders = <<>>
    /\ dataset_idx = 0
    /\ retriever = None
    /\ has_client = FALSE
    /\ batch_size = 0
    /\ top_k = 0
    /\ table_id_to_table = {}
    /\ loader_pos = 0
    /\ query_batch = EmptyBatch
    /\ retrieved_tables = <<>>
    /\ downstream_results = <<>>
    /\ retrieval_performance = NoPerformance
    /\ task_results = NoResult
    /\ outcome = None
    /\ returned = NoResult
    /\ runs = 0
    /\ last_loaders = <<>>
    /\ calls = NoCalls
    /\ batch_no = 0
    /\ done_no = 0
    /\ batch_trace = <<>>
    /\ finalized = 0
    /\ ds_hits = 0
    /\ ds_total = 0
    /\ eval_pc = "idle"
    /\ eval_args = [rows |-> <<>>, concurrency |-> 0, include_ves |-> FALSE, db_found |-> FALSE]
    /\ eval_rows = <<>>
    /\ eval_conns = 0
    /\ eval_result = [raised |-> "", scores |-> <<>>]
    /\ ranked = <<>>
    /\ config_call = [called |-> FALSE, given |-> FALSE, items |-> <<>>, overwrite |-> FALSE]
    /\ config_result = [raised |-> "", config |-> GetDefaultDatasetConfig(task_kind)]

\* ------------------------------------------------------------- exceptions
\* an exception leaves task_run: nothing in task_run catches it, the frame and
\* its task_results are dropped and the caller gets the error
DropFrame ==
    /\ pc' = "idle"
    /\ dataset_loaders' = <<>>
    /\ dataset_idx' = 0
    /\ retriever' = None
    /\ has_client' = FALSE
    /\ batch_size' = 0
    /\ top_k' = 0
    /\ table_id_to_table' = {}
    /\ loader_pos' = 0
    /\ query_batch' = EmptyBatch
    /\ retrieved_tables' = <<>>
    /\ downstream_results' = <<>>
    /\ retrieval_performance' = NoPerformance
    /\ task_results' = NoResult

\* (variant: the error is caught and the results so far are returned)
RaiseReturningPartial(err) ==
    /\ DropFrame
    /\ outcome' = "returned"
    /\ returned' = task_results

Raise(err) ==
    /\ DropFrame
    /\ outcome' = err
    /\ returned' = NoResult

DatasetName == dataset_loaders[dataset_idx]

\* (variant: both metric trackers are updated after the generator hook)
NextPcTrackersLast(p) ==
    CASE p = "retrieve" -> "generate"
      [] p = "generate" -> "update_retrieval"
      [] p = "update_retrieval" -> "update_downstream"
      [] p = "update_downstream" -> "next_batch"
      [] p = "calc_retrieval" -> "calc_downstream"
      [] p = "calc_downstream" -> "next_dataset"

\* (variant: the finalization sits inside the batch loop)
NextPcFinalizeInLoop(p) ==
    CASE p = "retrieve" -> "update_retrieval"
      [] p = "update_retrieval" -> "generate"
      [] p = "generate" -> "update_downstream"
      [] p = "update_downstream" -> "calc_retrieval"
      [] p = "calc_retrieval" -> "calc_downstream"
      [] p = "calc_downstream" -> "next_batch"

\* the statement order of the dataset loop's body: the batch loop's statements,
\* then the two finalizations and the store of the dataset's TaskResults
NextPc(p) ==
    CASE p = "retrieve" -> "update_retrieval"
      [] p = "update_retrieval" -> "generate"
      [] p = "generate" -> "update_downstream"
      [] p = "update_downstream" -> "next_batch"
      [] p = "calc_retrieval" -> "calc_downstream"
      [] p = "calc_downstream" -> "next_dataset"

\* ----------------------------------------------------------------- task_run
\* (retriever, is a client among the kwargs) as passed to task_run
RetrieverArgs == {<<"custom", FALSE>>, <<"standardized", TRUE>>,
                  <<"standardized", FALSE>>, <<"other", FALSE>>}

\* (variant: the comparison the other way round)
ConfigIsSuperset(config, loaders) == Keys(loaders) \subseteq config

\* the subset assertion on dict keys
ConfigIsSubset(config, loaders) == config \subseteq Keys(loaders)

\* (variant: the isinstance assertion is missing)
IsRecognizedRetrieverAny(r) == TRUE

\* isinstance(retriever, CustomEmbRetr) or isinstance(retriever, StandardizedEmbRetr)
IsRecognizedRetriever(r) == r = "custom" \/ r = "standardized"

\* (variant: the kwargs are not looked at, the client is passed on as it is)
MissingClientUnchecked(r, client) == FALSE

\* isinstance(retriever, StandardizedEmbRetr) and CLIENT_KEY_NAME not in kwargs
MissingClient(r, client) == r = "standardized" /\ ~client

\* the call of task_run up to the dataset loop: the two assertions, then the
\* empty result map
TaskRun(loaders, r, client, size, k) ==
    /\ UNCHANGED <<eval_vars, ranked, config_vars>>
    /\ pc = "idle"
    /\ runs < MaxRuns
    /\ runs' = runs + 1
    /\ last_loaders' = loaders
    /\ calls' = NoCalls
    /\ batch_no' = 0
    /\ done_no' = 0
    /\ batch_trace' = <<>>
    /\ finalized' = 0
    /\ ds_hits' = 0
    /\ ds_total' = 0
    /\ UNCHANGED task_vars
    /\ IF ~ConfigIsSubset(dataset_config, loaders) THEN Raise("AssertionError")
       ELSE IF ~IsRecognizedRetriever(r) THEN Raise("AssertionError")
       ELSE /\ pc' = "next_dataset"
            /\ dataset_loaders' = loaders
            /\ dataset_idx' = 0
            /\ retriever' = r
            /\ has_client' = client
            /\ batch_size' = size
            /\ top_k' = k
            /\ task_results' = NoResult
            /\ outcome' = "running"
            /\ returned' = NoResult
            /\ UNCHANGED <<table_id_to_table, loader_pos, query_batch, retrieved_tables,
                           downstream_results, retrieval_performance>>

\* `return task_results` once the loaders are exhausted
ReturnTaskResults ==
    /\ UNCHANGED <<eval_vars, ranked, config_vars>>
    /\ pc = "next_dataset"
    /\ dataset_idx = Len(dataset_loaders)
    /\ returned' = task_results
    /\ outcome' = "returned"
    /\ DropFrame
    /\ UNCHANGED <<task_vars, hist_vars>>

\* the head of the dataset loop: the next loader and its get_table_id_to_table()
NextDataset ==
    /\ UNCHANGED <<eval_vars, ranked, config_vars>>
    /\ pc = "next_dataset"
    /\ dataset_idx < Len(dataset_loaders)
    /\ calls' = [calls EXCEPT !.loader = @ + 1]
    /\ batch_no' = 0
    /\ done_no' = 0
    /\ batch_trace' = <<>>
    /\ finalized' = 0
    /\ ds_hits' = 0
    /\ ds_total' = 0
    /\ UNCHANGED <<task_vars, runs, last_loaders>>
    /\ \/ /\ Raise("LoaderError")
       \/ /\ table_id_to_table' = TableMapOf(dataset_loaders[dataset_idx + 1])
          /\ loader_pos' = 0
          /\ dataset_idx' = dataset_idx + 1
          /\ pc' = "next_batch"
          /\ UNCHANGED <<dataset_loaders, retriever, has_client, batch_size, top_k, query_batch,
                         retrieved_tables, downstream_results, retrieval_performance,
                         task_results, outcome, returned>>

\* the head of the batch loop: get_queries_for_task(batch_size) yields the next
\* batch, of at most batch_size of the queries the dataset still holds
NextBatch ==
    /\ UNCHANGED <<eval_vars, ranked, config_vars>>
    /\ pc = "next_batch"
    /\ \E n \in 1..batch_size :
            /\ loader_pos + n <= MaxQueries
            /\ query_batch' = LoaderBatch(DatasetName, loader_pos, n)
            /\ loader_pos' = loader_pos + n
    /\ batch_no' = batch_no + 1
    /\ batch_trace' = <<>>
    /\ calls' = [calls EXCEPT !.loader = @ + 1]
    /\ pc' = "retrieve"
    /\ UNCHANGED <<task_vars, dataset_loaders, dataset_idx, retriever, has_client, batch_size, top_k,
                   table_id_to_table, retrieved_tables, downstream_results,
                   retrieval_performance, task_results, outcome, returned,
                   runs, last_loaders, done_no, finalized, ds_hits, ds_total>>

\* ... or is exhausted, and the loop falls through to the finalization
BatchesExhausted ==
    /\ UNCHANGED <<eval_vars, ranked, config_vars>>
    /\ pc = "next_batch"
    /\ calls' = [calls EXCEPT !.loader = @ + 1]
    /\ pc' = "calc_retrieval"
    /\ UNCHANGED <<task_vars, dataset_loaders, dataset_idx, retriever, has_client, batch_size, top_k,
                   table_id_to_table, loader_pos, query_batch, retrieved_tables, downstream_results,
                   retrieval_performance, task_results, outcome, returned,
                   runs, last_loaders, batch_no, done_no, batch_trace, finalized, ds_hits, ds_total>>

\* the gold pairs of a batch that are members of their query's retrieved ids
HitsOf(qb, results) ==
    Cardinality({i \in 1..BatchSize(qb) :
        \E j \in DOMAIN results[i].retrieval_results :
            results[i].retrieval_results[j] = <<qb.database_id[i], qb.table_id[i]>>})

\* _get_retrieval_results: dispatch on the retriever's class, one retrieve_batch
\* call for the batch, then the table strings
GetRetrievalResults ==
    /\ UNCHANGED <<eval_vars, config_vars>>
    /\ pc = "retrieve"
    /\ UNCHANGED <<task_vars, runs, last_loaders, batch_no, done_no, finalized>>
    /\ IF MissingClient(retriever, has_client)
       THEN /\ Raise("KeyError")
            /\ UNCHANGED <<calls, batch_trace, ds_hits, ds_total, ranked>>
       ELSE IF ~IsRecognizedRetriever(retriever)
       THEN /\ Raise("ValueError: retriever")
            /\ UNCHANGED <<calls, batch_trace, ds_hits, ds_total, ranked>>
       ELSE /\ calls' = [calls EXCEPT !.retriever = @ + 1]
            /\ \/ /\ Raise("RetrieverError")
                  /\ batch_trace' = Append(batch_trace, "retrieve")
                  /\ UNCHANGED <<ds_hits, ds_total, ranked>>
               \/ \E rankings \in [1..BatchSize(query_batch) -> Rankings] :
                    LET results == RankedAnswer(DatasetName, rankings, top_k)
                    IN
                    IF FillRaises(results, table_id_to_table)
                    THEN /\ Raise("KeyError")
                         /\ batch_trace' = batch_trace \o <<"retrieve", "resolve">>
                         /\ UNCHANGED <<ds_hits, ds_total, ranked>>
                    ELSE /\ retrieved_tables' = FillRetrievalResultsWithTableStrs(results)
                         /\ ranked' = rankings
                         /\ batch_trace' = batch_trace \o <<"retrieve", "resolve">>
                         /\ ds_hits' = ds_hits + HitsOf(query_batch, results)
                         /\ ds_total' = ds_total + BatchSize(query_batch)
                         /\ pc' = NextPc(pc)
                         /\ UNCHANGED <<dataset_loaders, dataset_idx, retriever, has_client,
                                        batch_size, top_k, table_id_to_table, loader_pos,
                                        query_batch,
                                        downstream_results, retrieval_performance,
                                        task_results, outcome, returned>>

\* _update_retrieval_metrics(query_batch, retrieved_tables)
UpdateRetrievalMetrics ==
    /\ UNCHANGED <<eval_vars, config_vars>>
    /\ ranked' = <<>>
    /\ pc = "update_retrieval"
    /\ LET after == UpdateRetrievalCounters(true_positive, total_queries_processed,
                        query_batch.database_id, query_batch.table_id, retrieved_tables)
       IN /\ true_positive' = after[1]
          /\ total_queries_processed' = after[2]
    /\ batch_trace' = Append(batch_trace, "update_retrieval")
    /\ pc' = NextPc(pc)
    /\ UNCHANGED <<task_kind, dataset_config, pred_sql, ref_sql, difficulties,
                   current_dataset, database_dirs,
                   dataset_loaders, dataset_idx, retriever, has_client, batch_size, top_k,
                   table_id_to_table, loader_pos, query_batch, retrieved_tables, downstream_results,
                   retrieval_performance, task_results, outcome, returned,
                   runs, last_loaders, calls, batch_no, done_no, finalized, ds_hits, ds_total>>

\* ------------------------------------------------------ the downstream hooks
\* what the generator may answer, as a sequence of its pieces:
\* "<sql>\t<database id>", or text without a tab
Tab == "\t"
GenOutputs == {<<"SELECT 1", Tab, "db1">>, <<"SELECT 1">>}

\* str.split("\t", 1): the text before and after the first tab, or the text alone
RECURSIVE FirstTab(_, _)
FirstTab(text, i) ==
    IF i > Len(text) THEN 0
    ELSE IF text[i] = Tab THEN i
    ELSE FirstTab(text, i + 1)

SplitAtFirstTab(text) ==
    LET t == FirstTab(text, 1)
    IN IF t = 0 THEN <<text>>
       ELSE <<SubSeq(text, 1, t - 1), SubSeq(text, t + 1, Len(text))>>

\* DownstreamGeneratedResultDataModel
DownstreamGeneratedResult(name, id, text) ==
    [dataset_name |-> name, query_id |-> id, generated_results |-> text]

\* Text2SQLTask._get_downstream_task_results builds the table string from
\* self._get_schema(id[0]) for every retrieved id: the call lacks _get_schema's
\* second positional argument, a TypeError at the first retrieved id.
\* The index of the first query with a retrieved id, 0 when there is none
RECURSIVE FirstWithRetrievedIds(_, _)
FirstWithRetrievedIds(results, i) ==
    IF i > Len(results) THEN 0
    ELSE IF results[i].retrieval_results # <<>> THEN i
    ELSE FirstWithRetrievedIds(results, i + 1)

\* the zip of the query columns with the retrieval results
ZipLen(qb, results) == IF BatchSize(qb) < Len(results) THEN BatchSize(qb) ELSE Len(results)

\* retrieved_tables is not read again once the hook has returned
FrameKeptByHook == <<dataset_loaders, dataset_idx, retriever, has_client, batch_size, top_k,
                     table_id_to_table, loader_pos, query_batch,
                     retrieval_performance, task_results, outcome, returned>>

Text2SQLGetDownstreamTaskResults ==
    LET n == ZipLen(query_batch, retrieved_tables)
        bad == FirstWithRetrievedIds(retrieved_tables, 1)
        reached == IF bad = 0 \/ bad > n THEN n ELSE bad - 1
    IN /\ current_dataset' = IF current_dataset = None THEN DatasetName ELSE current_dataset
       /\ \/ \E j \in 1..reached :
                /\ calls' = [calls EXCEPT !.generator = @ + j]
                /\ Raise("GeneratorError")
                /\ UNCHANGED batch_trace
          \/ /\ reached < n
             /\ calls' = [calls EXCEPT !.generator = @ + reached]
             /\ Raise("TypeError")
             /\ UNCHANGED batch_trace
          \/ /\ reached = n
             /\ calls' = [calls EXCEPT !.generator = @ + n]
             /\ \E out \in [1..n -> GenOutputs] :
                    downstream_results' =
                        [i \in 1..n |-> DownstreamGeneratedResult(
                                            DatasetName, query_batch.query_id[i], out[i])]
             /\ retrieved_tables' = <<>>
             /\ batch_trace' = Append(batch_trace, "generate")
             /\ pc' = NextPc(pc)
             /\ UNCHANGED FrameKeptByHook

\* the abstract hook of AbsTask: whatever the subclass does, it returns or raises
AbstractGetDownstreamTaskResults ==
    /\ UNCHANGED current_dataset
    /\ calls' = [calls EXCEPT !.generator = @ + 1]
    /\ \/ /\ Raise("HookError")
          /\ UNCHANGED batch_trace
       \/ /\ downstream_results' = [i \in 1..BatchSize(query_batch) |-> "answer"]
          /\ retrieved_tables' = <<>>
          /\ batch_trace' = Append(batch_trace, "generate")
          /\ pc' = NextPc(pc)
          /\ UNCHANGED FrameKeptByHook

GetDownstreamTaskResults ==
    /\ UNCHANGED <<eval_vars, ranked, config_vars>>
    /\ pc = "generate"
    /\ IF task_kind = "text2sql"
       THEN Text2SQLGetDownstreamTaskResults
       ELSE AbstractGetDownstreamTaskResults
    /\ UNCHANGED <<task_kind, dataset_config, true_positive, total_queries_processed,
                   pred_sql, ref_sql, difficulties, database_dirs,
                   runs, last_loaders, batch_no, done_no, finalized, ds_hits, ds_total>>

\* the end of the loop body: the batch's locals are dead
BatchDone ==
    /\ pc' = NextPc(pc)
    /\ done_no' = done_no + 1
    /\ batch_trace' = Append(batch_trace, "update_downstream")
    /\ query_batch' = EmptyBatch
    /\ retrieved_tables' = <<>>
    /\ downstream_results' = <<>>
    /\ UNCHANGED <<dataset_loaders, dataset_idx, retriever, has_client, batch_size, top_k,
                   table_id_to_table, loader_pos, retrieval_performance, task_results,
                   outcome, returned>>

\* Text2SQLTask._update_downstream_task_metrics starts with
\* self.pred_answers.extend(...); no constructor sets pred_answers
HasPredAnswers == FALSE

\* the index of the first generated result that has no tab, 0 when all have one
RECURSIVE FirstUnparsable(_, _)
FirstUnparsable(results, i) ==
    IF i > Len(results) THEN 0
    ELSE IF Len(SplitAtFirstTab(results[i].generated_results)) < 2 THEN i
    ELSE FirstUnparsable(results, i + 1)

\* the (sql, database id) pairs appended for the first m generated results
PredSqlOf(results, m) ==
    [i \in 1..m |-> <<SplitAtFirstTab(results[i].generated_results)[1],
                      SplitAtFirstTab(results[i].generated_results)[2]>>]

\* list(zip(query_batch[ANSWER_COL_NAME], query_batch[DATABASE_ID_COL_NAME]))
RefSqlOf(qb) == [i \in 1..BatchSize(qb) |-> <<qb.answer[i], qb.database_id[i]>>]

\* (variant: no pred_answers line; a result without a tab is skipped, the
\* rows of the batch are appended without it)
Text2SQLUpdateDownstreamTaskMetricsSkipping ==
    /\ pred_sql' = pred_sql \o
            PredSqlOf(SelectSeq(downstream_results,
                        LAMBDA r : Len(SplitAtFirstTab(r.generated_results)) = 2),
                      Len(SelectSeq(downstream_results,
                        LAMBDA r : Len(SplitAtFirstTab(r.generated_results)) = 2)))
    /\ ref_sql' = ref_sql \o RefSqlOf(query_batch)
    /\ difficulties' = difficulties
    /\ BatchDone

\* Text2SQLTask._update_downstream_task_metrics: the pred_answers line, the
\* loop that splits and appends, then the reference pairs and the difficulties
Text2SQLUpdateDownstreamTaskMetrics ==
    LET bad == FirstUnparsable(downstream_results, 1)
    IN IF ~HasPredAnswers
       THEN /\ Raise("AttributeError")
            /\ UNCHANGED <<pred_sql, ref_sql, difficulties, done_no, batch_trace>>
       ELSE IF bad # 0
       THEN /\ pred_sql' = pred_sql \o PredSqlOf(downstream_results, bad - 1)
            /\ Raise("ValueError: could not parse")
            /\ UNCHANGED <<ref_sql, difficulties, done_no, batch_trace>>
       ELSE /\ pred_sql' = pred_sql \o PredSqlOf(downstream_results, Len(downstream_results))
            /\ ref_sql' = ref_sql \o RefSqlOf(query_batch)
            /\ IF query_batch.difficulty = NoColumn
               THEN /\ Raise("KeyError")
                    /\ UNCHANGED <<difficulties, done_no, batch_trace>>
               ELSE /\ difficulties' = difficulties \o query_batch.difficulty
                    /\ BatchDone

AbstractUpdateDownstreamTaskMetrics ==
    /\ UNCHANGED <<pred_sql, ref_sql, difficulties>>
    /\ \/ /\ Raise("HookError")
          /\ UNCHANGED <<done_no, batch_trace>>
       \/ BatchDone

UpdateDownstreamTaskMetrics ==
    /\ UNCHANGED <<eval_vars, ranked, config_vars>>
    /\ pc = "update_downstream"
    /\ IF task_kind = "text2sql"
       THEN Text2SQLUpdateDownstreamTaskMetrics
       ELSE AbstractUpdateDownstreamTaskMetrics
    /\ UNCHANGED <<task_kind, dataset_config, true_positive, total_queries_processed,
                   current_dataset, database_dirs,
                   runs, last_loaders, calls, batch_no, finalized, ds_hits, ds_total>>

\* ------------------------------------------------------------- finalization
\* (variant: no guard, the quotient is taken whatever the denominator)
HasProcessedQueriesUnguarded(total) == TRUE

\* the guard of _calculate_table_retrieval_performance
HasProcessedQueries(total) == total # 0

\* (variants: only total_queries_processed is reset; nothing is reset)
CountersAfterCalculateKeepingHits(tp, total) == <<tp, 0>>
CountersAfterCalculateNoReset(tp, total) == <<tp, total>>

\* the counters <<true_positive, total_queries_processed>> after its reset
CountersAfterCalculate(tp, total) == <<0, 0>>

\* _calculate_table_retrieval_performance(top_k)
CalculateTableRetrievalPerformance ==
    /\ UNCHANGED <<eval_vars, ranked, config_vars>>
    /\ pc = "calc_retrieval"
    /\ IF HasProcessedQueries(total_queries_processed)
       THEN /\ retrieval_performance' =
                    RetrievalPerformance(top_k, true_positive, total_queries_processed)
            /\ true_positive' =
                    CountersAfterCalculate(true_positive, total_queries_processed)[1]
            /\ total_queries_processed' =
                    CountersAfterCalculate(true_positive, total_queries_processed)[2]
            /\ finalized' = finalized + 1
            /\ pc' = NextPc(pc)
            /\ UNCHANGED <<dataset_loaders, dataset_idx, retriever, has_client, batch_size, top_k,
                           table_id_to_table, loader_pos, query_batch, retrieved_tables,
                           downstream_results, task_results, outcome, returned>>
       ELSE /\ Raise("ValueError: haven't processed any queries!")
            /\ UNCHANGED <<true_positive, total_queries_processed, finalized>>
    /\ UNCHANGED <<task_kind, dataset_config, pred_sql, ref_sql, difficulties,
                   current_dataset, database_dirs,
                   runs, last_loaders, calls, batch_no, done_no, batch_trace, ds_hits, ds_total>>

\* (variant: only the datasets of the task's own config get an entry)
StoreTaskResultsOfConfigured(downstream) ==
    /\ task_results' =
            IF DatasetName \in dataset_config
            THEN [name \in DOMAIN task_results \cup {DatasetName} |->
                    IF name = DatasetName
                    THEN TaskResults(retrieval_performance, downstream)
                    ELSE task_results[name]]
            ELSE task_results
    /\ retrieval_performance' = NoPerformance
    /\ pc' = NextPc(pc)
    /\ UNCHANGED <<dataset_loaders, dataset_idx, retriever, has_client, batch_size, top_k,
                   table_id_to_table, loader_pos, query_batch, retrieved_tables,
                   downstream_results, outcome, returned>>

\* task_results[dataset_name] = TaskResultsDataModel(...)
StoreTaskResults(downstream) ==
    /\ task_results' = [name \in DOMAIN task_results \cup {DatasetName} |->
                          IF name = DatasetName
                          THEN TaskResults(retrieval_performance, downstream)
                          ELSE task_results[name]]
    /\ retrieval_performance' = NoPerformance
    /\ pc' = NextPc(pc)
    /\ UNCHANGED <<dataset_loaders, dataset_idx, retriever, has_client, batch_size, top_k,
                   table_id_to_table, loader_pos, query_batch, retrieved_tables,
                   downstream_results, outcome, returned>>

\* Text2SQLTask._calculate_downstream_task_performance: the database directory
\* of current_dataset, evaluate_sql_execution, then the reset
Text2SQLCalculateDownstreamTaskPerformance ==
    IF database_dirs = {}
    THEN /\ Raise("TypeError")
         /\ UNCHANGED <<pred_sql, ref_sql, difficulties, current_dataset>>
    ELSE IF \A dirs \in database_dirs : current_dataset \notin DOMAIN dirs
    THEN /\ Raise("ValueError: no path to database files")
         /\ UNCHANGED <<pred_sql, ref_sql, difficulties, current_dataset>>
    ELSE \/ /\ Raise("EvaluatorError")
            /\ UNCHANGED <<pred_sql, ref_sql, difficulties, current_dataset>>
         \/ /\ StoreTaskResults([scores |-> <<"scores", Len(pred_sql)>>])
            /\ pred_sql' = <<>>
            /\ ref_sql' = <<>>
            /\ difficulties' = <<>>
            /\ current_dataset' = None

AbstractCalculateDownstreamTaskPerformance ==
    /\ UNCHANGED <<pred_sql, ref_sql, difficulties, current_dataset>>
    /\ \/ Raise("HookError")
       \/ StoreTaskResults([scores |-> <<"scores", 0>>])

CalculateDownstreamTaskPerformance ==
    /\ UNCHANGED <<eval_vars, ranked, config_vars>>
    /\ pc = "calc_downstream"
    /\ IF task_kind = "text2sql"
       THEN Text2SQLCalculateDownstreamTaskPerformance
       ELSE AbstractCalculateDownstreamTaskPerformance
    /\ UNCHANGED <<task_kind, dataset_config, true_positive, total_queries_processed,
                   database_dirs, hist_vars>>

\* Text2SQLTask.setup_database_dirs(dataloaders), between task_run calls
SetupDatabaseDirs(names) ==
    /\ UNCHANGED <<eval_vars, ranked, config_vars>>
    /\ pc = "idle"
    /\ task_kind = "text2sql"
    /\ database_dirs' = {[name \in names |-> <<"database_dir", name>>]}
    /\ UNCHANGED <<task_kind, dataset_config, true_positive, total_queries_processed,
                   pred_sql, ref_sql, difficulties, current_dataset,
                   frame_vars, outcome, returned, hist_vars>>

\* ---------------------------------------------------------- specification
Next ==
    \/ \E loaders \in LoaderDicts, ra \in RetrieverArgs, size \in BatchSizes, k \in TopKs :
            TaskRun(loaders, ra[1], ra[2], size, k)
    \/ NextDataset
    \/ NextBatch
    \/ BatchesExhausted
    \/ GetRetrievalResults
    \/ UpdateRetrievalMetrics
    \/ GetDownstreamTaskResults
    \/ UpdateDownstreamTaskMetrics
    \/ CalculateTableRetrievalPerformance
    \/ CalculateDownstreamTaskPerformance
    \/ ReturnTaskResults
    \/ \E names \in SUBSET DatasetNames : SetupDatabaseDirs(names)

Spec == Init /\ [][Next]_vars

\* ------------------------------------- the metric tracker called on its own
\* arguments of a direct _update_retrieval_metrics call: the columns and the
\* result list need not be equally long (zip stops at the shortest)
DirectBatches == {QueryBatch(n) : n \in {0} \cup BatchSizes}
DirectResults == UNION {RetrieverAnswers(FetaQA, m, k) : m \in {0} \cup BatchSizes, k \in TopKs}

DirectUpdateRetrievalMetrics(qb, results) ==
    /\ UNCHANGED <<eval_vars, ranked, config_vars>>
    /\ pc = "idle"
    /\ total_queries_processed + BatchSize(qb) <= MaxDirectTotal
    /\ LET after == UpdateRetrievalCounters(true_positive, total_queries_processed,
                        qb.database_id, qb.table_id, results)
       IN /\ true_positive' = after[1]
          /\ total_queries_processed' = after[2]
    /\ query_batch' = qb
    /\ outcome' = "updated"
    /\ UNCHANGED <<task_kind, dataset_config, pred_sql, ref_sql, difficulties,
                   current_dataset, database_dirs,
                   pc, dataset_loaders, dataset_idx, retriever, has_client, batch_size, top_k,
                   table_id_to_table, loader_pos, retrieved_tables, downstream_results,
                   retrieval_performance,
                   task_results, returned, hist_vars>>

DirectCalculateTableRetrievalPerformance(k) ==
    /\ UNCHANGED <<eval_vars, ranked, config_vars>>
    /\ pc = "idle"
    /\ IF HasProcessedQueries(total_queries_processed)
       THEN /\ retrieval_performance' =
                    RetrievalPerformance(k, true_positive, total_queries_processed)
            /\ true_positive' =
                    CountersAfterCalculate(true_positive, total_queries_processed)[1]
            /\ total_queries_processed' =
                    CountersAfterCalculate(true_positive, total_queries_processed)[2]
            /\ outcome' = "calculated"
       ELSE /\ outcome' = "ValueError: haven't processed any queries!"
            /\ retrieval_performance' = NoPerformance
            /\ UNCHANGED <<true_positive, total_queries_processed>>
    /\ UNCHANGED <<task_kind, dataset_config, pred_sql, ref_sql, difficulties,
                   current_dataset, database_dirs,
                   pc, dataset_loaders, dataset_idx, retriever, has_client, batch_size, top_k,
                   table_id_to_table, loader_pos, query_batch, retrieved_tables, downstream_results,
                   task_results, returned, hist_vars>>

NextMetrics ==
    \/ \E qb \in DirectBatches, results \in DirectResults :
            DirectUpdateRetrievalMetrics(qb, results)
    \/ \E k \in TopKs : DirectCalculateTableRetrievalPerformance(k)

SpecMetrics == Init /\ [][NextMetrics]_vars

\* ------------------------------------------- the SQL execution evaluator
\* evaluate_sql_execution(pred_sql, ref_sql, difficulties, db_path, concurrency,
\* timeout, include_ves): its rows are evaluated by a pool of workers, each row
\* on connections of its own and under a timeout of its own
MaxRows == 2

\* the concurrency Text2SQLTask passes, and the pool sizes looked at
EvalConcurrency == 1
Concurrencies == {EvalConcurrency, EvalConcurrency + 1}

\* what executing the predicted query of a row does: it returns the rows the
\* reference query returns, it returns other rows, it fails (a syntax error),
\* or it does not return
PredKinds == {"same", "different", "error", "hang"}
DifficultyLabels == {"Default", "hard"}
EvalRowInputs == [pred : PredKinds, difficulty : DifficultyLabels]

\* the efficiency reward of a correct row: a positive value, larger when the
\* predicted query is at least as fast as the reference
VesRewards == {1, 2}

PendingRow == [state |-> "pending", conns |-> {}, acc |-> 0, ves |-> 0]
DoneRow(acc, ves) == [state |-> "done", conns |-> {}, acc |-> acc, ves |-> ves]

Running(rows) == {i \in DOMAIN rows : rows[i].state = "running"}

\* (variant: a row is started whenever one is pending)
WorkerAvailableUnbounded(rows, concurrency) == TRUE

\* a worker of the pool is free
WorkerAvailable(rows, concurrency) == Cardinality(Running(rows)) < concurrency

\* (variant: only the timeout is caught, an execution error propagates)
PredFailureIsMismatchTimeoutOnly(kind) == kind = "hang"

\* a timeout or an execution error of the predicted query counts as a mismatch
PredFailureIsMismatch(kind) == kind \in {"error", "hang"}

RECURSIVE SumVes(_, _)
SumVes(rows, S) ==
    IF S = {} THEN 0
    ELSE LET i == CHOOSE j \in S : TRUE
         IN rows[i].ves + SumVes(rows, S \ {i})

\* accuracy and VES as <<sum of the rows' contributions, number of rows>>
ScoresOver(rows, S, include_ves) ==
    [accuracy |-> <<Cardinality({i \in S : rows[i].acc = 1}), Cardinality(S)>>,
     ves |-> IF include_ves THEN <<SumVes(rows, S), Cardinality(S)>> ELSE <<>>]

\* the scores returned: overall, and per difficulty label of the rows
Scores(inputs, rows, include_ves) ==
    [overall |-> ScoresOver(rows, DOMAIN rows, include_ves),
     per_difficulty |->
        [d \in {inputs[i].difficulty : i \in DOMAIN inputs} |->
            ScoresOver(rows, {i \in DOMAIN inputs : inputs[i].difficulty = d}, include_ves)]]

\* what the caller of the evaluator has: nothing yet, scores, or an exception
NoEvalResult == [raised |-> "", scores |-> <<>>]
EvalScores(scores) == [raised |-> "", scores |-> scores]
EvalError(err) == [raised |-> err, scores |-> <<>>]

\* the call (one call is followed from its start to its return or raise; a
\* call keeps nothing of the call before it): a database file that is missing
\* is fatal, otherwise every row is handed to the pool
EvaluateSqlExecution(rows, concurrency, include_ves, db_found) ==
    /\ UNCHANGED <<orch_vars, ranked, config_vars>>
    /\ eval_pc = "idle"
    /\ eval_args' = [rows |-> rows, concurrency |-> concurrency,
                     include_ves |-> include_ves, db_found |-> db_found]
    /\ eval_conns' = 0
    /\ IF db_found
       THEN /\ eval_pc' = "running"
            /\ eval_rows' = [i \in DOMAIN rows |-> PendingRow]
            /\ eval_result' = NoEvalResult
       ELSE /\ eval_pc' = "raised"
            /\ eval_rows' = <<>>
            /\ eval_result' = EvalError("Error: missing database file")

\* a free worker takes a pending row and opens two fresh connections for it,
\* one for the reference and one for the predicted query
StartRow(i) ==
    /\ UNCHANGED <<orch_vars, ranked, config_vars>>
    /\ eval_pc = "running"
    /\ i \in DOMAIN eval_rows
    /\ eval_rows[i].state = "pending"
    /\ WorkerAvailable(eval_rows, eval_args.concurrency)
    /\ eval_rows' = [eval_rows EXCEPT ![i] =
            [state |-> "running", conns |-> {eval_conns + 1, eval_conns + 2},
             acc |-> 0, ves |-> 0]]
    /\ eval_conns' = eval_conns + 2
    /\ UNCHANGED <<eval_pc, eval_args, eval_result>>

\* an exception leaves the evaluator
EvalRaise(err) ==
    /\ eval_pc' = "raised"
    /\ eval_result' = EvalError(err)
    /\ UNCHANGED <<eval_args, eval_rows, eval_conns>>

\* the row's executions end and its connections are closed: a match scores 1
\* (and its reward), anything else 0
FinishRow(i) ==
    /\ UNCHANGED <<orch_vars, ranked, config_vars>>
    /\ eval_pc = "running"
    /\ i \in DOMAIN eval_rows
    /\ eval_rows[i].state = "running"
    /\ LET kind == eval_args.rows[i].pred
       IN /\ kind # "hang"
          /\ IF kind = "error" /\ ~PredFailureIsMismatch(kind)
             THEN EvalRaise("Error: sql execution")
             ELSE /\ \E reward \in VesRewards :
                        eval_rows' = [eval_rows EXCEPT ![i] =
                            IF kind = "same"
                            THEN DoneRow(1, IF eval_args.include_ves THEN reward ELSE 0)
                            ELSE DoneRow(0, 0)]
                  /\ UNCHANGED <<eval_pc, eval_args, eval_conns, eval_result>>

\* the row's timeout expires: its execution is cancelled, its connections are
\* closed and the row is a mismatch
TimeoutRow(i) ==
    /\ UNCHANGED <<orch_vars, ranked, config_vars>>
    /\ eval_pc = "running"
    /\ i \in DOMAIN eval_rows
    /\ eval_rows[i].state = "running"
    /\ eval_args.rows[i].pred = "hang"
    /\ IF ~PredFailureIsMismatch("hang")
       THEN EvalRaise("Error: timeout")
       ELSE /\ eval_rows' = [eval_rows EXCEPT ![i] = DoneRow(0, 0)]
            /\ UNCHANGED <<eval_pc, eval_args, eval_conns, eval_result>>

\* every row is done: the scores are aggregated and returned
EvalReturn ==
    /\ UNCHANGED <<orch_vars, ranked, config_vars>>
    /\ eval_pc = "running"
    /\ \A i \in DOMAIN eval_rows : eval_rows[i].state = "done"
    /\ eval_pc' = "returned"
    /\ eval_result' = EvalScores(Scores(eval_args.rows, eval_rows, eval_args.include_ves))
    /\ UNCHANGED <<eval_args, eval_rows, eval_conns>>

WorkerStep == \E i \in 1..MaxRows : StartRow(i) \/ FinishRow(i) \/ TimeoutRow(i)

\* the evaluator is called with some rows, pool size and flags
EvaluateCall ==
    /\ eval_pc = "idle"
    /\ \E rows \in SeqsUpTo(EvalRowInputs, MaxRows), concurrency \in Concurrencies,
          include_ves \in BOOLEAN, db_found \in BOOLEAN :
            EvaluateSqlExecution(rows, concurrency, include_ves, db_found)

NextEval ==
    \/ EvaluateCall
    \/ \E i \in 1..MaxRows : StartRow(i)
    \/ \E i \in 1..MaxRows : FinishRow(i)
    \/ \E i \in 1..MaxRows : TimeoutRow(i)
    \/ EvalReturn

SpecEval == Init /\ [][NextEval]_vars

\* the pool's workers keep running and every timeout fires
FairSpecEval == SpecEval /\ WF_vars(WorkerStep \/ EvalReturn)

\* ------------------------------- the custom retriever's retrieve_batch
\* AbsCustomEmbeddingRetriever.retrieve_batch(queries, dataset_name, top_k)
\* loops `for query in queries` and reads query.query_id and query.query.
\* Two shapes of `queries`: the list of QueryForTasksDataModel objects of its
\* signature, and the columnar dict task_run passes as query_batch.
QueryObject(id) == [query_id |-> id, query |-> <<"query", id>>]
QueryList(n) == [form |-> "list", items |-> [i \in 1..n |-> QueryObject(i)]]
ColumnarDict(name, n) == [form |-> "dict", columns |-> LoaderBatch(name, 0, n)]

\* the keys of the batch dict, in insertion order
ColumnNames == <<"query_id", "query", "database_id", "table_id", "answer", "difficulty">>

\* what `for query in queries` yields: the elements of a list, the keys of a dict
IterationOf(queries) ==
    IF queries.form = "list"
    THEN [i \in DOMAIN queries.items |-> [is_query |-> TRUE, value |-> queries.items[i]]]
    ELSE [i \in DOMAIN ColumnNames |-> [is_query |-> FALSE, value |-> ColumnNames[i]]]

\* the queries of a batch, their number and their ids in batch order
NumQueries(queries) ==
    IF queries.form = "list" THEN Len(queries.items) ELSE BatchSize(queries.columns)
QueryIdAt(queries, i) ==
    IF queries.form = "list" THEN queries.items[i].query_id ELSE queries.columns.query_id[i]

\* RetrievalResultDataModel(dataset_name, query_id, retrieval_results)
RetrievalResultOfQuery(name, id, ids) ==
    [dataset_name |-> name, query_id |-> id, retrieval_results |-> ids,
     retrieved_tables |-> <<>>]

\* the loop: a str (a key of the dict) has no attribute query_id; otherwise one
\* result is appended per element, with what retrieve answers for its text
RECURSIVE RetrieveBatchLoop(_, _, _, _)
RetrieveBatchLoop(elements, name, answers, results) ==
    IF elements = <<>> THEN [raised |-> "", results |-> results]
    ELSE IF ~Head(elements).is_query THEN [raised |-> "AttributeError", results |-> <<>>]
    ELSE RetrieveBatchLoop(Tail(elements), name, answers,
            Append(results, RetrievalResultOfQuery(name, Head(elements).value.query_id,
                                answers[Head(elements).value.query_id])))

RetrieveBatch(queries, name, answers) ==
    RetrieveBatchLoop(IterationOf(queries), name, answers, <<>>)

\* a call of retrieve_batch on its own; `answers` is what the retriever's
\* retrieve returns for each query
DirectRetrieveBatch(queries, name, answers) ==
    /\ UNCHANGED <<eval_vars, ranked, config_vars>>
    /\ pc = "idle"
    /\ LET r == RetrieveBatch(queries, name, answers)
       IN /\ outcome' = IF r.raised = "" THEN "retrieved" ELSE r.raised
          /\ retrieved_tables' = r.results
    /\ query_batch' = queries
    /\ UNCHANGED <<task_vars, dataset_loaders, dataset_idx, retriever, has_client,
                   batch_size, top_k, table_id_to_table, loader_pos, downstream_results,
                   retrieval_performance, task_results, returned, hist_vars>>
    /\ UNCHANGED pc

RetrieveBatchInputs ==
    {QueryList(n) : n \in 0..MaxQueries}
        \cup {ColumnarDict(name, n) : name \in DatasetNames, n \in 1..MaxQueries}

NextRetrieveBatch ==
    \E queries \in RetrieveBatchInputs, name \in DatasetNames, k \in TopKs :
        \E answers \in [1..NumQueries(queries) -> SeqsUpTo(Pairs, k)] :
            DirectRetrieveBatch(queries, name, answers)

SpecRetrieveBatch == Init /\ [][NextRetrieveBatch]_vars

\* ------------------------------ _construct_dataset_config called on its own
\* a call of _construct_dataset_config on its own
DirectConstructDatasetConfig(given, items, overwrite) ==
    /\ given \/ items = <<>>
    /\ config_call' = [called |-> TRUE, given |-> given, items |-> items,
                       overwrite |-> overwrite]
    /\ config_result' = ConstructDatasetConfig(task_kind, given, items, overwrite)
    /\ UNCHANGED <<orch_vars, eval_vars, ranked>>

\* one call is followed
ConstructCall ==
    /\ ~config_call.called
    /\ \E given \in BOOLEAN, items \in UserConfigs, overwrite \in BOOLEAN :
            DirectConstructDatasetConfig(given, items, overwrite)

NextConfig == ConstructCall

SpecConfig == Init /\ [][NextConfig]_vars

\* ================================================================== claims

\* C1: in every state reached by any sequence of _update_retrieval_metrics and
\* _calculate_table_retrieval_performance calls on a task, from construction on,
\* true_positive <= total_queries_processed and both are >= 0.
C1_CountersOrdered ==
    /\ 0 <= true_positive
    /\ true_positive <= total_queries_processed
    /\ 0 <= total_queries_processed

\* C1 witness: hits and misses have been counted after an earlier finalization
C1_Witness ==
    /\ outcome = "updated"
    /\ retrieval_performance # NoPerformance
    /\ true_positive = 1
    /\ total_queries_processed = 3

\* C2 (as claimed): whenever a dataset's first batch is about to be processed,
\* all running state is in its zero state, whatever happened in earlier task_run
\* calls on the task.
C2_CleanAtFirstBatch ==
    (pc = "retrieve" /\ batch_no = 1) =>
        /\ true_positive = 0
        /\ total_queries_processed = 0
        /\ task_kind = "text2sql" =>
                /\ pred_sql = <<>>
                /\ ref_sql = <<>>
                /\ difficulties = <<>>
                /\ current_dataset = None

\* a step in which _calculate_table_retrieval_performance returns
C3_FinalizeStep == pc = "calc_retrieval" /\ pc' = "calc_downstream"

\* C3: the counters are 0 after construction; a successful
\* _calculate_table_retrieval_performance sets both to 0, exactly once, after the
\* accuracy was taken from their values before the reset; no other step of
\* task_run sets a counter to 0.
C3_ResetOnlyAtFinalize ==
    /\ true_positive = 0 /\ total_queries_processed = 0
    /\ [][/\ C3_FinalizeStep =>
                /\ total_queries_processed # 0
                /\ retrieval_performance'.accuracy =
                        <<true_positive, total_queries_processed>>
                /\ true_positive' = 0
                /\ total_queries_processed' = 0
                /\ finalized' = finalized + 1
          /\ ~C3_FinalizeStep =>
                /\ true_positive' = 0 => true_positive = 0
                /\ total_queries_processed' = 0 => total_queries_processed = 0
                /\ finalized' <= finalized]_vars

\* C3 witness: a dataset with hits has just been finalized
C3_Witness ==
    /\ pc = "calc_downstream"
    /\ retrieval_performance.accuracy = <<1, 2>>
    /\ true_positive = 0
    /\ total_queries_processed = 0
    /\ finalized = 1

\* C4: finalizing the retrieval metrics while total_queries_processed = 0 raises;
\* no RetrievalPerformance (accuracy 0 or 0/0) comes out of it and task_run
\* produces no TaskResult for the dataset.
C4_ZeroQueriesFails ==
    [][(pc = "calc_retrieval" /\ total_queries_processed = 0) =>
            /\ outcome' = "ValueError: haven't processed any queries!"
            /\ pc' = "idle"
            /\ retrieval_performance' = NoPerformance
            /\ task_results' = NoResult
            /\ returned' = NoResult]_vars

\* C4 witness: a dataset whose loader yielded no batch was finalized and failed
C4_Witness ==
    /\ outcome = "ValueError: haven't processed any queries!"
    /\ batch_no = 0
    /\ total_queries_processed = 0
    /\ returned = NoResult

\* the retrieved id lists of a batch's results, each reversed
ReverseIds(results) ==
    [i \in DOMAIN results |->
        [results[i] EXCEPT !.retrieval_results =
            [j \in DOMAIN @ |-> @[Len(@) + 1 - j]]]]

\* C5: for a batch of N queries _update_retrieval_metrics adds exactly N to
\* total_queries_processed and to true_positive exactly the number of queries
\* whose gold pair is a member of their retrieved list; the rank of a hit does not
\* matter: with every retrieved list reversed the counters come out the same.
C5_UpdateCountsMembers ==
    [][pc = "update_retrieval" =>
            /\ total_queries_processed' = total_queries_processed + BatchSize(query_batch)
            /\ true_positive' = true_positive + HitsOf(query_batch, retrieved_tables)
            /\ <<true_positive', total_queries_processed'>> =
                    UpdateRetrievalCounters(true_positive, total_queries_processed,
                        query_batch.database_id, query_batch.table_id,
                        ReverseIds(retrieved_tables))]_vars

\* C5 witness: a batch of two queries was counted, one with its hit at rank 2
\* (= top_k), the other with its hit at rank 1
C5_Witness ==
    /\ pc = "generate"
    /\ Len(retrieved_tables) = 2
    /\ retrieved_tables[1].retrieval_results = <<OtherPair, GoldPair>>
    /\ retrieved_tables[2].retrieval_results = <<GoldPair, OtherPair>>
    /\ true_positive = 2
    /\ total_queries_processed = 2

\* C6 (as claimed): the accuracy in a dataset's TaskResults is the number of that
\* dataset's own queries whose gold pair is among their retrieved ids, divided by
\* the number of that dataset's own queries, and k is the top_k of the call.
C6_AccuracyIsOwnHitRate ==
    (pc = "next_dataset" /\ dataset_idx >= 1) =>
        LET r == task_results[DatasetName].retrieval_performance
        IN /\ r.k = top_k
           /\ ds_total # 0
           /\ r.accuracy[2] # 0
           /\ r.accuracy[1] * ds_total = ds_hits * r.accuracy[2]

\* a step that ends a task_run call otherwise than by its return statement
C7_FailingStep ==
    /\ pc # "idle" \/ runs' # runs
    /\ pc' = "idle"
    /\ ~(pc = "next_dataset" /\ dataset_idx = Len(dataset_loaders))

\* C7: when any step of a dataset's evaluation raises, task_run raises to its
\* caller and hands back no result map; a result map reaches the caller only by
\* the return statement, with a TaskResults for every loader.
C7_FailureYieldsNoResult ==
    [][/\ C7_FailingStep =>
            /\ outcome' \notin {"returned", "running", None}
            /\ returned' = NoResult
            /\ task_results' = NoResult
       /\ returned' # returned /\ returned' # NoResult =>
            /\ pc = "next_dataset" /\ dataset_idx = Len(dataset_loaders)
            /\ outcome' = "returned"
            /\ DOMAIN returned' = Keys(dataset_loaders)]_vars

\* C7 witness: the first dataset was finalized, the second one failed in a hook,
\* and the caller has no result
C7_Witness ==
    /\ outcome = "HookError"
    /\ calls.loader >= 5
    /\ calls.generator >= 2
    /\ returned = NoResult
    /\ pc = "idle"

IsPrefix(s, t) == Len(s) <= Len(t) /\ \A i \in DOMAIN s : s[i] = t[i]

InBatch == {"retrieve", "update_retrieval", "generate", "update_downstream"}

RetrieveCalls == Cardinality({i \in DOMAIN batch_trace : batch_trace[i] = "retrieve"})

\* C9: batches are processed one at a time in the order the loader yields them
\* (batch i is retrieved when exactly i - 1 batches are done), with one
\* retrieve_batch call per batch; a dataset is finalized once, after its last
\* batch is done and before the next dataset's first batch is retrieved.
C9_SequentialBatches ==
    pc # "idle" =>
        /\ finalized <= 1
        /\ pc \in InBatch =>
                /\ batch_no = done_no + 1
                /\ finalized = 0
                /\ RetrieveCalls = IF pc = "retrieve" THEN 0 ELSE 1
        /\ pc \in {"next_batch", "calc_retrieval"} =>
                /\ done_no = batch_no
                /\ finalized = 0
        /\ pc = "calc_downstream" =>
                /\ done_no = batch_no
                /\ finalized = 1
        /\ pc = "next_dataset" =>
                /\ DOMAIN task_results = {dataset_loaders[i] : i \in 1..dataset_idx}
                /\ dataset_idx >= 1 => finalized = 1
        /\ pc # "next_dataset" =>
                DOMAIN task_results = {dataset_loaders[i] : i \in 1..(dataset_idx - 1)}

\* C9 witness: the second dataset of a call is finalized after its two batches
C9_Witness ==
    /\ pc = "calc_downstream"
    /\ dataset_idx = 2
    /\ batch_no = 2
    /\ done_no = 2
    /\ finalized = 1

\* C10: a task_run call whose loaders do not cover the task's dataset config
\* fails in the call step itself: no loader, retriever or generator was called
\* and the task's state is as before.
C10_SubsetAssertion ==
    [][(runs' # runs /\ ~(dataset_config \subseteq Keys(last_loaders'))) =>
            /\ outcome' = "AssertionError"
            /\ pc' = "idle"
            /\ calls' = NoCalls
            /\ returned' = NoResult
            /\ UNCHANGED task_vars]_vars

\* C10 witness: the call failed on a task whose counters were not zero
C10_Witness ==
    /\ outcome = "AssertionError"
    /\ ~(dataset_config \subseteq Keys(last_loaders))
    /\ total_queries_processed > 0
    /\ calls = NoCalls

\* C11: a retriever of neither recognized class makes task_run fail at its
\* assertion, before any work: a task_run call either starts its dataset loop
\* with a custom or standardized retriever, or it raises with no loader,
\* retriever or generator call made and both counters as they were; no frame
\* ever runs with another retriever.
C11_UnrecognizedRetrieverFailsFast ==
    /\ [](pc # "idle" => retriever \in {"custom", "standardized"})
    /\ [][(pc = "idle" /\ runs' = runs + 1) =>
            \/ /\ pc' = "next_dataset"
               /\ retriever' \in {"custom", "standardized"}
            \/ /\ pc' = "idle"
               /\ outcome' = "AssertionError"
               /\ returned' = NoResult
               /\ calls' = NoCalls
               /\ true_positive' = true_positive
               /\ total_queries_processed' = total_queries_processed]_vars

\* C11 witness: the loaders cover the task's datasets, so the assertion that
\* failed is the one on the retriever
C11_Witness ==
    /\ pc = "idle"
    /\ outcome = "AssertionError"
    /\ runs > 0
    /\ {"fetaqa", "tab-fact"} \subseteq Keys(last_loaders)
    /\ calls = NoCalls

\* C12: a standardized retriever without a client fails at the first batch:
\* the step raises KeyError, retrieve_batch is not called (neither then nor
\* before), the counters are as they were, the dataset has no TaskResults and
\* the caller gets no result.
C12_MissingClientFailsAtOnce ==
    /\ []((retriever = "standardized" /\ ~has_client) => calls.retriever = 0)
    /\ [][(pc = "retrieve" /\ retriever = "standardized" /\ ~has_client) =>
            /\ dataset_loaders[dataset_idx] \notin DOMAIN task_results
            /\ pc' = "idle"
            /\ outcome' = "KeyError"
            /\ returned' = NoResult
            /\ calls' = calls
            /\ true_positive' = true_positive
            /\ total_queries_processed' = total_queries_processed]_vars

\* C12 witness: the KeyError of a batch for which retrieve_batch was not called
C12_Witness ==
    /\ pc = "idle"
    /\ outcome = "KeyError"
    /\ calls.retriever = 0
    /\ calls.loader = 2
    /\ batch_no = 1

C15_CurrentDatasetIsFinalized ==
    (pc = "calc_downstream" /\ task_kind = "text2sql") =>
        current_dataset = dataset_loaders[dataset_idx]

\* C16: for Text2SQLTask, finalizing the downstream performance of a dataset
\* that has no database directory (setup_database_dirs not called, or called
\* without it) raises: no scores are stored for it and no result is returned.
C16_NoDirectoryIsFatal ==
    [][(/\ pc = "calc_downstream"
        /\ task_kind = "text2sql"
        /\ \A dirs \in database_dirs : dataset_loaders[dataset_idx] \notin DOMAIN dirs) =>
            /\ pc' = "idle"
            /\ outcome' \notin {"running", "returned"}
            /\ returned' = NoResult]_vars

\* C17: for Text2SQLTask, a batch without a difficulty column whose generated
\* results all split is appended to the running lists, every row of it with
\* the difficulty "Default".
C17_DefaultDifficulty ==
    [][(/\ pc = "update_downstream"
        /\ task_kind = "text2sql"
        /\ query_batch.difficulty = NoColumn
        /\ FirstUnparsable(downstream_results, 1) = 0) =>
            /\ pc' = "next_batch"
            /\ difficulties' =
                    difficulties \o [i \in 1..BatchSize(query_batch) |-> "Default"]]_vars

\* C18: in the SQL execution evaluator, a predicted query that fails to
\* execute or times out never raises out of the call (the call raises only for
\* a missing database file); when the call returns, each such row has
\* contributed 0 to accuracy and 0 to VES, every row whose query returns the
\* reference's rows has contributed 1, and the accuracy returned counts exactly
\* those over all rows.
C18_FailedRowsScoreZero ==
    /\ eval_pc = "raised" => ~eval_args.db_found
    /\ eval_pc = "returned" =>
            /\ eval_result.raised = ""
            /\ \A i \in DOMAIN eval_rows :
                    /\ eval_args.rows[i].pred \in {"error", "hang"} =>
                            (eval_rows[i].acc = 0 /\ eval_rows[i].ves = 0)
                    /\ eval_args.rows[i].pred = "same" => eval_rows[i].acc = 1
            /\ eval_result.scores.overall.accuracy =
                    <<Cardinality({i \in DOMAIN eval_rows : eval_args.rows[i].pred = "same"}),
                      Len(eval_args.rows)>>

\* C18 witness: a call returned scores for a row that failed to execute and a
\* row that matched, with VES asked for
C18_Witness ==
    /\ eval_pc = "returned"
    /\ eval_args.include_ves
    /\ Len(eval_args.rows) = 2
    /\ eval_args.rows[1].pred = "error"
    /\ eval_args.rows[2].pred = "same"
    /\ eval_result.scores.overall.accuracy = <<1, 2>>
    /\ eval_result.scores.overall.ves[1] > 0

\* C19: in the SQL execution evaluator, at most `concurrency` rows are being
\* evaluated at a time, the rows being evaluated have connections of their own
\* and a row that is not being evaluated has none open; a step of the pool
\* changes one row only and never a row that is done, so the timeout of a
\* hanging row makes that row a mismatch and leaves the others as they are;
\* and a call that has started returns, with every row evaluated.
C19_IndependentRows ==
    /\ [](eval_pc = "running" =>
            Cardinality(Running(eval_rows)) <= eval_args.concurrency)
    /\ [](\A i, j \in DOMAIN eval_rows :
            /\ (i # j) => (eval_rows[i].conns \cap eval_rows[j].conns = {})
            /\ (eval_rows[i].state # "running") = (eval_rows[i].conns = {}))
    /\ [][(eval_pc = "running" /\ eval_pc' = "running") =>
            /\ Cardinality({i \in DOMAIN eval_rows : eval_rows'[i] # eval_rows[i]}) <= 1
            /\ \A i \in DOMAIN eval_rows :
                    /\ eval_rows[i].state = "done" => eval_rows'[i] = eval_rows[i]
                    /\ (/\ eval_args.rows[i].pred = "hang"
                        /\ eval_rows[i].state = "running"
                        /\ eval_rows'[i] # eval_rows[i]) => eval_rows'[i] = DoneRow(0, 0)]_vars
    /\ [][eval_pc = "running" => eval_pc' \in {"running", "returned"}]_vars
    /\ (eval_pc = "running") ~>
            (eval_pc = "returned" /\ \A i \in DOMAIN eval_rows : eval_rows[i].state = "done")

\* C19 witness: with a pool of two, a row has been evaluated as a match while
\* the hanging row next to it is still being executed
C19_Witness ==
    /\ eval_pc = "running"
    /\ eval_args.concurrency = 2
    /\ Len(eval_args.rows) = 2
    /\ eval_args.rows[1].pred = "hang"
    /\ eval_rows[1].state = "running"
    /\ eval_rows[2] = DoneRow(1, 0)

\* C20: retrieve_batch returns one RetrievalResult per query of the batch, in
\* the batch's order, the i-th carrying the id of the i-th query.
C20_OneResultPerQuery ==
    outcome # None =>
        /\ outcome = "retrieved"
        /\ Len(retrieved_tables) = NumQueries(query_batch)
        /\ \A i \in 1..NumQueries(query_batch) :
                retrieved_tables[i].query_id = QueryIdAt(query_batch, i)

\* C21: every RetrievalResult the hit test reads holds at most top_k pairs, the
\* first of the retriever's ranking in the ranking's order, and a table string
\* for each of them in the same order; the hit test counts no query whose
\* gold pair the retriever ranks beyond top_k (or not at all).
GoldWithinTopK(ranking, gold, k) ==
    \E j \in DOMAIN ranking : j <= k /\ LiteralEval(ranking[j]) = gold

IsUsersConfig(config) == \A f \in DOMAIN config.paths : config.paths[f] = "user's path"

C23_OneResultPerLoader ==
    /\ [](outcome = "returned" => DOMAIN returned = Keys(last_loaders))
    /\ [][pc = "calc_downstream" /\ pc' = "next_dataset" =>
            /\ DOMAIN task_results = {dataset_loaders[i] : i \in 1..(dataset_idx - 1)}
            /\ DOMAIN task_results' = {dataset_loaders[i] : i \in 1..dataset_idx}]_vars

\* a call with two loaders has returned; the task's config names one of them
C23_Witness ==
    /\ pc = "idle"
    /\ outcome = "returned"
    /\ Len(last_loaders) = 2
    /\ DOMAIN returned = DatasetNames
    /\ \E name \in DOMAIN returned : name \notin dataset_config
====
